---- MODULE Spec2Model ----
(***************************************************************************)
(* HostingBackup (src/hostingbackup.py): the main script as a state        *)
(* machine, one action per block of the script, and the stage functions    *)
(* (delete_dirs_local, delete_dirs_remote, compress_dirs_local, export_db, *)
(* check_size_db, upload_dir, send_mail_smtp) as operators over outcomes   *)
(* of the file system and of the external programs they call.              *)
(*                                                                         *)
(* The configuration file is an input.  A key's value is drawn when the    *)
(* script first reads it; a key that is read at several places of the      *)
(* script is kept in config, so that every read sees the same value.       *)
(***************************************************************************)
EXTENDS Integers, Sequences, FiniteSets, TLC

\* ---------------------------------------------------------------- bounds
MaxEntries == 2    \* entries of a local directory listing / rows of a remote listing
MaxKeep == 1       \* largest days_keep_local / days_keep_remote
MaxAge == 4        \* largest age of a local entry, in ticks
TicksPerDay == 2   \* resolution of a timedelta: ticks in one day
MaxRemoteAge == 2  \* largest date difference of a remote row, in days
MaxDirs == 2       \* items of [directories]
MaxDbs == 2        \* database sections
MaxLimit == 1      \* largest max_size of a database section, in MB
MaxSize == 3       \* largest measured size of a database, in ticks
TicksPerMB == 2    \* resolution of a measured size: ticks in one MB
MaxExclude == 2    \* longest value of exclude, in characters

NoValue == 0 - 1   \* has_option(...) is False

\* ------------------------------------------------------- the stage order
\* The blocks of the main script, in the order of the source text.
Blocks ==
  << "Start", "PruneLocal", "PruneRemote", "MakeWorkDir", "Archive", "Export",
     "SizeAudit", "Upload", "FinalizeLog", "CopyLog", "Notify", "Done" >>

BlockIndex(b) == CHOOSE i \in 1..Len(Blocks) : Blocks[i] = b

\* Archive and SizeAudit in each other's place.
NextBlockSwapped(b) ==
  CASE b = "MakeWorkDir" -> "SizeAudit"
    [] b = "SizeAudit" -> "Export"
    [] b = "Export" -> "Archive"
    [] b = "Archive" -> "Upload"
    [] OTHER -> Blocks[BlockIndex(b) + 1]

\* The Upload block moved behind the copy of the log.
NextBlockUploadLast(b) ==
  CASE b = "SizeAudit" -> "FinalizeLog"
    [] b = "CopyLog" -> "Upload"
    [] b = "Upload" -> "Notify"
    [] OTHER -> Blocks[BlockIndex(b) + 1]

\* The block the script enters when block b falls through.
NextBlock(b) == Blocks[BlockIndex(b) + 1]

VARIABLES
  pc,        \* the block of the main script about to run
  config,    \* the keys read so far that are read more than once
  success,   \* success (line 454)
  logfile,   \* the log file on disk: "absent", "stale", "open", "closed"
  log,       \* what this run has written to the log file
  workdir,   \* dir_current_backup_path: "none" or "created"
  exit,      \* how the process ended: [kind, msg]
  ran,       \* history: the stages entered (their enable flag was true)
  calls,     \* history: the stages that invoked a collaborator or deleted
  anyError,  \* history: some stage function returned an (ERROR) row
  last,      \* the last stage call: its inputs and what it returned
  idx,       \* the section a loop over config.sections() is at (0: not in a loop)
  dbs,       \* per database section: its connection keys, "unread" or "ok"
  files,     \* the files in dir_current_backup_path
  mail       \* the notification: decided, subject suffix, body, transport

vars == << pc, config, success, logfile, log, workdir, exit, ran, calls,
           anyError, last, idx, dbs, files, mail >>

\* ------------------------------------------------------------ the config
Flags == { "delete_local", "delete_remote", "compress_dir", "export_db",
           "check_db_size", "upload_dir" }
SharedKeys == Flags \cup { "dir_remote", "rclone", "mysqldump", "sections" }

B2S(b) == IF b THEN "true" ELSE "false"

\* The value v is what key k holds: k was not read yet, or was read as v.
Reads(k, v) == config[k] \in { "unread", v }

\* An executable path of [executables]: no such key, a path that is not on
\* disk, or a path that is.
ExeStates == { "absent", "nofile", "ok" }

\* ---------------------------------------------------------- process exit
Running == [kind |-> "running", msg |-> "", at |-> "none"]

\* sys.exit(<string>): the string goes to stderr and the exit status is 1,
\* also for the empty string; an uncaught exception ends with status 1;
\* running off the end of the script ends with status 0.
ExitCode(e) ==
  CASE e.kind = "end" -> 0
    [] e.kind = "sysexit" -> 1
    [] e.kind = "exception" -> 1
    [] OTHER -> NoValue

\* ------------------------------------------------------------ retention
\* delete_dirs_local, lines 42-51.  An entry of the directory: a file, a
\* directory whose stat raises OSError, or a directory with its age in ticks
\* and whether shutil.rmtree succeeds on it.
LocalEntries ==
  { [kind |-> "file", age |-> 0, rm_ok |-> TRUE],
    [kind |-> "nostat", age |-> 0, rm_ok |-> TRUE] }
  \cup [kind : {"dir"}, age : 0..MaxAge, rm_ok : BOOLEAN]

\* >= in the place of >.
ExpiredLocalInclusive(age, days) == age >= days * TicksPerDay

\* line 46: (now - dir_date) > timedelta(days=days): the exact difference,
\* not a number of whole days.
ExpiredLocal(age, days) == age > days * TicksPerDay

RECURSIVE delete_dirs_local_from(_, _, _, _)
delete_dirs_local_from(entries, days, i, acc) ==
  IF i > Len(entries) THEN acc
  ELSE LET e == entries[i] IN
    CASE e.kind = "file" ->
           delete_dirs_local_from(entries, days, i + 1, acc)
      [] e.kind = "nostat" ->
           delete_dirs_local_from(entries, days, i + 1,
             [acc EXCEPT !.error_code = 1,
                         !.rows = Append(@, [sev |-> "ERROR", item |-> i])])
      [] OTHER ->
           IF ~ExpiredLocal(e.age, days)
           THEN delete_dirs_local_from(entries, days, i + 1, acc)
           ELSE IF e.rm_ok
           THEN delete_dirs_local_from(entries, days, i + 1,
                  [acc EXCEPT !.rows = Append(@, [sev |-> "OK", item |-> i]),
                              !.tried = @ \cup {i},
                              !.deleted = @ \cup {i}])
           ELSE delete_dirs_local_from(entries, days, i + 1,
                  [acc EXCEPT !.error_code = 1,
                              !.rows = Append(@, [sev |-> "ERROR", item |-> i]),
                              !.tried = @ \cup {i}])

NoResult ==
  [error_code |-> 0, rows |-> << >>, tried |-> {}, deleted |-> {},
   raised |-> "none"]

delete_dirs_local(entries, days) ==
  delete_dirs_local_from(entries, days, 1, NoResult)

\* delete_dirs_remote, lines 203-219.  A line of the listing: one whose date
\* field does not parse (or that has fewer than five fields), or a row with
\* the difference in days between today's date and its date, and whether
\* "rclone purge" succeeds on it.
RemoteLines ==
  { [kind |-> "bad", age |-> 0, purge_ok |-> TRUE] }
  \cup [kind : {"row"}, age : 0..MaxRemoteAge, purge_ok : BOOLEAN]

\* line 212: dir_date_diff > days, a difference of dates in whole days.
ExpiredRemote(age, days) == age > days

\* line 207: lines = process_output_lsd.splitlines()[1:]
SkipFirst(output) == IF output = << >> THEN << >> ELSE Tail(output)

\* The loop of lines 208-216 inside the try of line 203: a line that does not
\* parse raises ValueError (IndexError), which nothing catches; a purge that
\* fails raises CalledProcessError, caught at line 217, outside the loop.
RECURSIVE delete_dirs_remote_from(_, _, _, _)
delete_dirs_remote_from(lines, days, i, acc) ==
  IF i > Len(lines) THEN acc
  ELSE LET l == lines[i] IN
    IF l.kind = "bad" THEN [acc EXCEPT !.raised = "ValueError"]
    ELSE IF ~ExpiredRemote(l.age, days)
    THEN delete_dirs_remote_from(lines, days, i + 1, acc)
    ELSE IF l.purge_ok
    THEN delete_dirs_remote_from(lines, days, i + 1,
           [acc EXCEPT !.rows = Append(@, [sev |-> "OK", item |-> i]),
                       !.tried = @ \cup {i},
                       !.deleted = @ \cup {i}])
    ELSE [acc EXCEPT !.error_code = 1,
                     !.rows = Append(@, [sev |-> "ERROR", item |-> i]),
                     !.tried = @ \cup {i}]

\* lsd_ok: whether "rclone lsd" exits with status 0; output: its lines.
delete_dirs_remote(lsd_ok, output, days) ==
  IF ~lsd_ok
  THEN [NoResult EXCEPT !.error_code = 1,
                        !.rows = << [sev |-> "ERROR", item |-> 0] >>]
  ELSE delete_dirs_remote_from(SkipFirst(output), days, 1, NoResult)

\* Nothing is removed: the listing after the run is the listing before it.
RemainingAll(entries, deleted, i) == entries

\* shutil.rmtree(str(dir)), line 47, and "rclone purge", lines 213-215: the
\* entries that are still there after a run that deleted the entries at the
\* positions in deleted, in the order of the listing, from position i on.
RECURSIVE Remaining(_, _, _)
Remaining(entries, deleted, i) ==
  IF i > Len(entries) THEN << >>
  ELSE IF i \in deleted THEN Remaining(entries, deleted, i + 1)
  ELSE << entries[i] >> \o Remaining(entries, deleted, i + 1)

\* -------------------------------------------------------------- archive
\* compress_dirs_local, lines 69-103.  An item of [directories]: whether the
\* source exists, how the archiver ends ("ok", or the exception it raises),
\* and whether <name>.tar.gz exists afterwards.  subprocess.check_output is
\* only called for compress_method "Tar"; both methods can raise OSError.
DirItems(method) ==
  { [exists |-> FALSE, outcome |-> "ok", file |-> FALSE],
    [exists |-> TRUE, outcome |-> "ok", file |-> TRUE] }
  \cup [exists : {TRUE}, outcome : {"OSError"}, file : BOOLEAN]
  \cup IF method = "Tar"
       THEN [exists : {TRUE}, outcome : {"CalledProcessError"}, file : BOOLEAN]
       ELSE {}

\* get_file_size(file), lines 381-389: os.path.getsize raises OSError
\* (FileNotFoundError) when the file is not there.
get_file_size(file_exists) == IF file_exists THEN "size" ELSE "OSError"

\* The except clauses of lines 94-101 (and 135-137) build their message with
\* get_file_size(...), outside any try: when the file was not produced the
\* OSError leaves the function.
RECURSIVE compress_dirs_local_from(_, _, _)
compress_dirs_local_from(dirs, i, acc) ==
  IF i > Len(dirs) THEN acc
  ELSE LET d == dirs[i]
           made == IF d.file THEN acc.made \cup {i} ELSE acc.made
       IN
    IF ~d.exists
    THEN compress_dirs_local_from(dirs, i + 1,
           [acc EXCEPT !.error_code = 1,
                       !.rows = Append(@, [sev |-> "ERROR", item |-> i])])
    ELSE IF d.outcome = "ok"
    THEN compress_dirs_local_from(dirs, i + 1,
           [acc EXCEPT !.rows = Append(@, [sev |-> "OK", item |-> i]),
                       !.made = made])
    ELSE IF get_file_size(d.file) = "OSError"
    THEN [acc EXCEPT !.raised = "OSError"]
    ELSE compress_dirs_local_from(dirs, i + 1,
           [acc EXCEPT !.error_code = IF d.outcome = "OSError" THEN 2 ELSE 1,
                       !.rows = Append(@, [sev |-> "ERROR", item |-> i]),
                       !.made = made])

NoFiles == [error_code |-> 0, rows |-> << >>, made |-> {}, raised |-> "none"]

compress_dirs_local(dirs) == compress_dirs_local_from(dirs, 1, NoFiles)

\* --------------------------------------------------------------- export
\* export_db, lines 122-139: dump_ok is whether mysqldump exits with status
\* 0, file whether <alias>.sql exists afterwards.
export_db(dump_ok, file) ==
  IF dump_ok
  THEN [error_code |-> 0, rows |-> << [sev |-> "OK", item |-> 0] >>,
        made |-> file, raised |-> "none"]
  ELSE IF get_file_size(file) = "OSError"
  THEN [error_code |-> 1, rows |-> << >>, made |-> file, raised |-> "OSError"]
  ELSE [error_code |-> 1, rows |-> << [sev |-> "ERROR", item |-> 0] >>,
        made |-> file, raised |-> "none"]

\* The characters of a value of exclude: a letter of a table name, a
\* space, a comma.
Chars == { "t", " ", "," }

\* exclude.replace(' ', ''), line 130
RemoveSpaces(str) == SelectSeq(str, LAMBDA c : c # " ")

\* str.split(','): the pieces between the commas from position i on, cur
\* being the piece read so far; the empty string has one piece, the empty
\* one.
RECURSIVE split(_, _, _)
split(str, i, cur) ==
  IF i > Len(str) THEN << cur >>
  ELSE IF str[i] = "," THEN << cur >> \o split(str, i + 1, << >>)
  ELSE split(str, i + 1, Append(cur, str[i]))

\* lines 130-131: the tables of the --ignore-table flags, one flag for each
\* piece of exclude.replace(' ', '').split(',').
ignore_table(exclude) == split(RemoveSpaces(exclude), 1, << >>)

\* ------------------------------------------------------------ size audit
\* >= in the place of >.
OverLimitInclusive(db_size, max_size) == db_size >= max_size * TicksPerMB

\* line 177: db_size > int(max_size), db_size in ticks and max_size in MB.
OverLimit(db_size, max_size) == db_size > max_size * TicksPerMB

\* error_code left at 0 when the limit is exceeded: the warning is advisory.
check_size_db_advisory(query_ok, found, size, max_size) ==
  IF ~query_ok
  THEN [error_code |-> 2, rows |-> << [sev |-> "ERROR", item |-> 0] >>,
        db_size |-> NoValue]
  ELSE LET db_size == IF found THEN size ELSE 0 IN
    IF OverLimit(db_size, max_size)
    THEN [error_code |-> 0, rows |-> << [sev |-> "WARNING", item |-> 0] >>,
          db_size |-> db_size]
    ELSE [error_code |-> 0, rows |-> << [sev |-> "OK", item |-> 0] >>,
          db_size |-> db_size]

\* check_size_db, lines 159-186.  query_ok: whether mysql exits with status
\* 0; found: whether a line of its output starts with the database name;
\* size: the second field of that line, in ticks of 1/TicksPerMB MB;
\* max_size: the configured limit, in MB.
check_size_db(query_ok, found, size, max_size) ==
  IF ~query_ok
  THEN [error_code |-> 2, rows |-> << [sev |-> "ERROR", item |-> 0] >>,
        db_size |-> NoValue]
  ELSE LET db_size == IF found THEN size ELSE 0 IN
    IF OverLimit(db_size, max_size)
    THEN [error_code |-> 1, rows |-> << [sev |-> "WARNING", item |-> 0] >>,
          db_size |-> db_size]
    ELSE [error_code |-> 0, rows |-> << [sev |-> "OK", item |-> 0] >>,
          db_size |-> db_size]

\* --------------------------------------------------------------- upload
\* upload_dir, lines 236-253: copy_ok is whether "rclone copy" exits with 0.
upload_dir(copy_ok) ==
  IF copy_ok
  THEN [error_code |-> 0, rows |-> << [sev |-> "OK", item |-> 0] >>]
  ELSE [error_code |-> 1, rows |-> << [sev |-> "ERROR", item |-> 0] >>]

\* All sequences over S of length at most n.
SeqsUpTo(S, n) == UNION { [1..k -> S] : k \in 0..n }

\* ---------------------------------------------------------- the main script
\* success = (error_code == 0): the verdict of the last stage alone.
DegradeOverwrites(s, error_code) == error_code = 0

\* success is never set to False.
DegradeNever(s, error_code) == s

\* lines 498-499 (and 521, 549, 599, 646, 669): if error_code != 0: success = False
Degrade(s, error_code) == s /\ error_code = 0

HasError(rows) == \E i \in 1..Len(rows) : rows[i].sev = "ERROR"

\* log.write(output_format(element, ...)) while block b runs.
Entry(element, b) == [element |-> element, stage |-> b]

NoCall == [stage |-> "none"]

NoMail ==
  [mode |-> "unread", send |-> FALSE, suffix |-> "", body |-> << >>,
   transport |-> "none"]

Init ==
  /\ pc = "Start"
  /\ config = [k \in SharedKeys |-> "unread"]
  /\ success = TRUE
  /\ logfile \in { "absent", "stale" }
  /\ log = << >>
  /\ workdir = "none"
  /\ exit = Running
  /\ ran = << >>
  /\ calls = {}
  /\ anyError = FALSE
  /\ last = NoCall
  /\ idx = 0
  /\ dbs = << >>
  /\ files = {}
  /\ mail = NoMail

\* sys.exit(0) in the place of sys.exit(msg).
FatalWithStatusZero(msg) ==
  /\ pc' = "Done"
  /\ idx' = 0
  /\ exit' = [kind |-> "end", msg |-> msg, at |-> pc]

\* sys.exit(msg)
Fatal(msg) ==
  /\ pc' = "Done"
  /\ idx' = 0
  /\ exit' = [kind |-> "sysexit", msg |-> msg, at |-> pc]

\* An exception that nothing catches.
Uncaught(name) ==
  /\ pc' = "Done"
  /\ idx' = 0
  /\ exit' = [kind |-> "exception", msg |-> name, at |-> pc]

\* The script goes on with block b.
Goto(b) ==
  /\ pc' = b
  /\ idx' = 0
  /\ exit' = exit

\* lines 461-487: the configuration file and dir_local are checked, the old
\* log file is removed, the new one is opened and gets its header.
StartOutcomes ==
  { "no_argument", "no_config_file", "no_dir_local_key", "no_dir_local", "ok" }

\* The log file opened later than line 481: not before the first stage.
StartWithoutLog ==
  /\ pc = "Start"
  /\ \E o \in StartOutcomes :
       IF o # "ok" THEN Fatal(o) ELSE Goto(NextBlock("Start"))
  /\ UNCHANGED << config, success, logfile, log, workdir, ran, calls,
                  anyError, last, dbs, files, mail >>

Start ==
  /\ pc = "Start"
  /\ \E o \in StartOutcomes :
       IF o # "ok"
       THEN /\ Fatal(o)
            /\ UNCHANGED << logfile, log >>
       ELSE /\ Goto(NextBlock("Start"))
            /\ logfile' = "open"
            /\ log' = << Entry("table-open", "Start"), Entry("caption", "Start"),
                         Entry("row-header", "Start") >>
  /\ UNCHANGED << config, success, workdir, ran, calls, anyError, last, dbs,
                  files, mail >>

\* The header written before the flag is tested.
TestWritesHeader(b, key) ==
  /\ pc = b
  /\ idx = 0
  /\ \E on \in BOOLEAN :
       /\ Reads(key, B2S(on))
       /\ config' = [config EXCEPT ![key] = B2S(on)]
       /\ log' = Append(log, Entry("row-action", b))
       /\ IF on
          THEN /\ pc' = b
               /\ idx' = 1
               /\ ran' = Append(ran, b)
          ELSE /\ pc' = NextBlock(b)
               /\ idx' = 0
               /\ UNCHANGED ran
  /\ last' = NoCall
  /\ UNCHANGED << success, logfile, workdir, exit, calls, anyError, dbs,
                  files, mail >>

\* if config['actions'].getboolean(key): ... log.write(output_format(
\* 'row-action', ...)): the test that opens the block of stage b, and the
\* header the stage writes when it is enabled.
Test(b, key) ==
  /\ pc = b
  /\ idx = 0
  /\ \E on \in BOOLEAN :
       /\ Reads(key, B2S(on))
       /\ config' = [config EXCEPT ![key] = B2S(on)]
       /\ IF on
          THEN /\ pc' = b
               /\ idx' = 1
               /\ ran' = Append(ran, b)
               /\ log' = Append(log, Entry("row-action", b))
          ELSE /\ pc' = NextBlock(b)
               /\ idx' = 0
               /\ UNCHANGED << ran, log >>
  /\ last' = NoCall
  /\ UNCHANGED << success, logfile, workdir, exit, calls, anyError, dbs,
                  files, mail >>

\* The stage function of block b returned r: lines 497-500 and the like.
Returned(b, r) ==
  /\ Goto(NextBlock(b))
  /\ success' = Degrade(success, r.error_code)
  /\ log' = Append(log, Entry("row", b))
  /\ anyError' = (anyError \/ HasError(r.rows))

\* lines 490-492
PruneLocal == Test("PruneLocal", "delete_local")

\* lines 493-500
PruneLocalBody ==
  /\ pc = "PruneLocal"
  /\ idx = 1
  /\ \E days \in {NoValue} \cup 0..MaxKeep :
       IF days = NoValue
       THEN /\ Fatal("days_keep_local")
            /\ UNCHANGED << success, log, calls, anyError, last >>
       ELSE \E entries \in SeqsUpTo(LocalEntries, MaxEntries) :
              LET r == delete_dirs_local(entries, days) IN
              /\ Returned("PruneLocal", r)
              /\ calls' = calls \cup {"PruneLocal"}
              /\ last' = [stage |-> "PruneLocal", days |-> days,
                          items |-> entries, result |-> r]
  /\ UNCHANGED << config, logfile, workdir, ran, dbs, files, mail >>

\* lines 503-505
PruneRemote == Test("PruneRemote", "delete_remote")

\* lines 510-519 (and 655-664): dir_remote and the rclone executable.  What
\* the checks end with: a sys.exit message, or "ok".
RemoteChecks(dr, rc) ==
  CASE dr = "absent" -> "dir_remote"
    [] rc = "absent" -> "rclone"
    [] rc = "nofile" -> "rclone_nofile"
    [] OTHER -> "ok"

\* The keys the checks read: rclone is read only when dir_remote is there.
ReadRemote(dr, rc) ==
  /\ Reads("dir_remote", dr)
  /\ IF dr = "absent"
     THEN /\ rc = "absent"
          /\ config' = [config EXCEPT !["dir_remote"] = dr]
     ELSE /\ Reads("rclone", rc)
          /\ config' = [config EXCEPT !["dir_remote"] = dr, !["rclone"] = rc]

\* lines 506-523
PruneRemoteBody ==
  /\ pc = "PruneRemote"
  /\ idx = 1
  /\ \E days \in {NoValue} \cup 0..MaxKeep :
       IF days = NoValue
       THEN /\ Fatal("days_keep_remote")
            /\ UNCHANGED << config, success, log, calls, anyError, last >>
       ELSE \E dr \in {"absent", "set"}, rc \in ExeStates :
         /\ ReadRemote(dr, rc)
         /\ IF RemoteChecks(dr, rc) # "ok"
            THEN /\ Fatal(RemoteChecks(dr, rc))
                 /\ UNCHANGED << success, log, calls, anyError, last >>
            ELSE \E lsd_ok \in BOOLEAN,
                    output \in SeqsUpTo(RemoteLines, MaxEntries + 1) :
                   LET r == delete_dirs_remote(lsd_ok, output, days) IN
                   /\ lsd_ok \/ output = << >>
                   /\ calls' = calls \cup {"PruneRemote"}
                   /\ last' = [stage |-> "PruneRemote", days |-> days,
                               lsd_ok |-> lsd_ok, items |-> SkipFirst(output),
                               result |-> r]
                   /\ IF r.raised # "none"
                      THEN /\ Uncaught(r.raised)
                           /\ UNCHANGED << success, log, anyError >>
                      ELSE Returned("PruneRemote", r)
  /\ UNCHANGED << logfile, workdir, ran, dbs, files, mail >>

\* The directory made for Archive alone: "or ...getboolean('export_db')"
\* left out of line 528.
MakeWorkDirArchiveOnly ==
  /\ pc = "MakeWorkDir"
  /\ \E c \in BOOLEAN :
       /\ Reads("compress_dir", B2S(c))
       /\ config' = [config EXCEPT !["compress_dir"] = B2S(c)]
       /\ IF c
          THEN /\ workdir' = "created"
               /\ ran' = Append(ran, "MakeWorkDir")
          ELSE UNCHANGED << workdir, ran >>
  /\ Goto(NextBlock("MakeWorkDir"))
  /\ last' = NoCall
  /\ UNCHANGED << success, logfile, log, calls, anyError, dbs, files, mail >>

\* lines 525-532: config[...].getboolean('compress_dir') or
\* config[...].getboolean('export_db'); the second is read only when the
\* first is false.
MakeWorkDir ==
  /\ pc = "MakeWorkDir"
  /\ \E c \in BOOLEAN, e \in BOOLEAN :
       /\ Reads("compress_dir", B2S(c))
       /\ IF c
          THEN /\ e = FALSE
               /\ config' = [config EXCEPT !["compress_dir"] = "true"]
          ELSE /\ Reads("export_db", B2S(e))
               /\ config' = [config EXCEPT !["compress_dir"] = "false",
                                            !["export_db"] = B2S(e)]
       /\ IF c \/ e
          THEN /\ workdir' = "created"
               /\ ran' = Append(ran, "MakeWorkDir")
          ELSE UNCHANGED << workdir, ran >>
  /\ Goto(NextBlock("MakeWorkDir"))
  /\ last' = NoCall
  /\ UNCHANGED << success, logfile, log, calls, anyError, dbs, files, mail >>

\* lines 535-537
Archive == Test("Archive", "compress_dir")

\* An executable of [executables], lines 542-547 and the like: what the
\* check ends with for the key named exe.
ExeCheck(exe, state) ==
  CASE state = "absent" -> exe
    [] state = "nofile" -> exe \o "_nofile"
    [] OTHER -> "ok"

\* lines 538-551
ArchiveBody ==
  /\ pc = "Archive"
  /\ idx = 1
  /\ \E has_directories \in BOOLEAN, compress_method \in {"Python", "Tar"},
        tar \in ExeStates :
       IF ~has_directories
       THEN /\ compress_method = "Python" /\ tar = "absent"
            /\ Uncaught("KeyError")
            /\ UNCHANGED << success, log, calls, anyError, last, files >>
       ELSE IF compress_method = "Tar" /\ tar # "ok"
       THEN /\ Fatal(ExeCheck("tar", tar))
            /\ UNCHANGED << success, log, calls, anyError, last, files >>
       ELSE \E dirs \in SeqsUpTo(DirItems(compress_method), MaxDirs) :
              LET r == compress_dirs_local(dirs) IN
              /\ compress_method = "Tar" \/ tar = "absent"
              /\ calls' = calls \cup {"Archive"}
              /\ files' = files \cup { << "tar", i >> : i \in r.made }
              /\ last' = [stage |-> "Archive", method |-> compress_method,
                          items |-> dirs, result |-> r]
              /\ IF r.raised # "none"
                 THEN /\ Uncaught(r.raised)
                      /\ UNCHANGED << success, log, anyError >>
                 ELSE Returned("Archive", r)
  /\ UNCHANGED << config, logfile, workdir, ran, dbs, mail >>

\* for section in config.sections(), lines 557 and 607: the database
\* sections of the file, drawn when the first of the two loops starts.
ReadSections(n) ==
  IF config["sections"] = "unread"
  THEN dbs' = [i \in 1..n |-> "unread"]
  ELSE n = Len(dbs) /\ dbs' = dbs

\* lines 554-557 (and 604-607): the test of a stage that loops over the
\* sections.
LoopTest(b, key) ==
  /\ pc = b
  /\ idx = 0
  /\ \E on \in BOOLEAN, n \in 0..MaxDbs :
       /\ Reads(key, B2S(on))
       /\ IF on
          THEN /\ ReadSections(n)
               /\ config' = [config EXCEPT ![key] = "true",
                                           !["sections"] = "read"]
               /\ pc' = b
               /\ idx' = 1
               /\ ran' = Append(ran, b)
               /\ log' = Append(log, Entry("row-action", b))
          ELSE /\ n = 0
               /\ config' = [config EXCEPT ![key] = "false"]
               /\ pc' = NextBlock(b)
               /\ idx' = 0
               /\ UNCHANGED << ran, log, dbs >>
  /\ last' = NoCall
  /\ UNCHANGED << success, logfile, workdir, exit, calls, anyError, files,
                  mail >>

\* The loop has gone through every section.
LoopEnd(b) ==
  /\ pc = b
  /\ idx > Len(dbs)
  /\ Goto(NextBlock(b))
  /\ last' = NoCall
  /\ UNCHANGED << config, success, logfile, log, workdir, ran, calls,
                  anyError, dbs, files, mail >>

\* The loop goes on with the next section.
Continue ==
  /\ pc' = pc
  /\ idx' = idx + 1
  /\ exit' = exit

\* lines 559-582 (and 609-632): the connection keys of a section, in the
\* order the script checks them.
DbKeys == << "alias", "host", "port", "database", "user", "password" >>

\* missing: the first key of DbKeys the section lacks, 0 when it has all.
ReadDbKeys(missing) == dbs[idx] = "ok" => missing = 0

\* The row written in front of what the log holds.
ItemReturnedPrepends(b, r) ==
  /\ Continue
  /\ success' = Degrade(success, r.error_code)
  /\ log' = << Entry("row", b) >> \o log
  /\ anyError' = (anyError \/ HasError(r.rows))

\* The function called for one section returned r: lines 599-601, 646-648.
ItemReturned(b, r) ==
  /\ Continue
  /\ success' = Degrade(success, r.error_code)
  /\ log' = Append(log, Entry("row", b))
  /\ anyError' = (anyError \/ HasError(r.rows))

\* lines 554-557
Export == LoopTest("Export", "export_db")

ExportEnd == LoopEnd("Export")

\* lines 558-601, one section
ExportItem ==
  /\ pc = "Export"
  /\ idx \in 1..Len(dbs)
  /\ \E export \in BOOLEAN, missing \in 0..Len(DbKeys), md \in ExeStates :
       IF ~export
       THEN /\ missing = 0 /\ md = "absent"
            /\ Continue
            /\ last' = NoCall
            /\ UNCHANGED << config, success, log, calls, anyError, dbs, files >>
       ELSE IF missing # 0
       THEN /\ ReadDbKeys(missing) /\ md = "absent"
            /\ Fatal(DbKeys[missing])
            /\ last' = NoCall
            /\ UNCHANGED << config, success, log, calls, anyError, dbs, files >>
       ELSE
         /\ Reads("mysqldump", md)
         /\ config' = [config EXCEPT !["mysqldump"] = md]
         /\ dbs' = [dbs EXCEPT ![idx] = "ok"]
         /\ IF md # "ok"
            THEN /\ Fatal(ExeCheck("mysqldump", md))
                 /\ last' = NoCall
                 /\ UNCHANGED << success, log, calls, anyError, files >>
            ELSE \E dump_ok \in BOOLEAN, file \in BOOLEAN,
                    has_exclude \in BOOLEAN,
                    exclude \in SeqsUpTo(Chars, MaxExclude) :
                   LET r == export_db(dump_ok, file) IN
                   /\ dump_ok => file
                   /\ has_exclude \/ exclude = << >>
                   /\ calls' = calls \cup {"Export"}
                   /\ files' = IF r.made THEN files \cup { << "sql", idx >> }
                                         ELSE files
                   /\ last' = [stage |-> "Export", item |-> idx,
                               dump_ok |-> dump_ok, result |-> r,
                               has_exclude |-> has_exclude,
                               exclude |-> exclude,
                               flags |-> ignore_table(exclude)]
                   /\ IF r.raised # "none"
                      THEN /\ Uncaught(r.raised)
                           /\ UNCHANGED << success, log, anyError >>
                      ELSE ItemReturned("Export", r)
  /\ UNCHANGED << logfile, workdir, ran, mail >>

\* lines 604-607
SizeAudit == LoopTest("SizeAudit", "check_db_size")

SizeAuditEnd == LoopEnd("SizeAudit")

\* lines 637-642: the test is has_option('executables', 'mysqldump'), the
\* path read is config['executables'].get('mysql'), None when the key is
\* absent, and os.path.exists(None) raises TypeError.
MysqlCheck(md, my) ==
  CASE md = "absent" -> "mysql"
    [] my = "absent" -> "TypeError"
    [] my = "nofile" -> "mysql_nofile"
    [] OTHER -> "ok"

\* lines 608-648, one section
SizeAuditItem ==
  /\ pc = "SizeAudit"
  /\ idx \in 1..Len(dbs)
  /\ \E check_size \in BOOLEAN, missing \in 0..Len(DbKeys),
        max_size \in {NoValue} \cup 0..MaxLimit,
        md \in ExeStates, my \in ExeStates :
       IF ~check_size
       THEN /\ missing = 0 /\ max_size = NoValue /\ md = "absent"
            /\ my = "absent"
            /\ Continue
            /\ last' = NoCall
            /\ UNCHANGED << config, success, log, calls, anyError, dbs >>
       ELSE IF missing # 0
       THEN /\ ReadDbKeys(missing) /\ max_size = NoValue /\ md = "absent"
            /\ my = "absent"
            /\ Fatal(DbKeys[missing])
            /\ last' = NoCall
            /\ UNCHANGED << config, success, log, calls, anyError, dbs >>
       ELSE IF max_size = NoValue
       THEN /\ md = "absent" /\ my = "absent"
            /\ Fatal("max_size")
            /\ dbs' = [dbs EXCEPT ![idx] = "ok"]
            /\ last' = NoCall
            /\ UNCHANGED << config, success, log, calls, anyError >>
       ELSE
         /\ Reads("mysqldump", md)
         /\ md = "absent" => my = "absent"
         /\ config' = [config EXCEPT !["mysqldump"] = md]
         /\ dbs' = [dbs EXCEPT ![idx] = "ok"]
         /\ IF MysqlCheck(md, my) = "TypeError"
            THEN /\ Uncaught("TypeError")
                 /\ last' = NoCall
                 /\ UNCHANGED << success, log, calls, anyError >>
            ELSE IF MysqlCheck(md, my) # "ok"
            THEN /\ Fatal(MysqlCheck(md, my))
                 /\ last' = NoCall
                 /\ UNCHANGED << success, log, calls, anyError >>
            ELSE \E query_ok \in BOOLEAN, found \in BOOLEAN, size \in 0..MaxSize :
                   LET r == check_size_db(query_ok, found, size, max_size) IN
                   /\ (query_ok /\ found) \/ size = 0
                   /\ query_ok \/ ~found
                   /\ calls' = calls \cup {"SizeAudit"}
                   /\ last' = [stage |-> "SizeAudit", item |-> idx,
                               query_ok |-> query_ok, found |-> found,
                               size |-> size, max_size |-> max_size,
                               result |-> r]
                   /\ ItemReturned("SizeAudit", r)
  /\ UNCHANGED << logfile, workdir, ran, files, mail >>

\* The test of line 652 left out.
ProducesUnchecked == TRUE

\* config['actions'].getboolean('compress_dir') or
\* config['actions'].getboolean('export_db'), lines 652 and 683: both keys
\* were read by lines 528 and 554.
Produces == config["compress_dir"] = "true" \/ config["export_db"] = "true"

\* lines 651-654 and 672-673
Upload ==
  /\ pc = "Upload"
  /\ idx = 0
  /\ \E on \in BOOLEAN :
       /\ Reads("upload_dir", B2S(on))
       /\ config' = [config EXCEPT !["upload_dir"] = B2S(on)]
       /\ IF ~on
          THEN /\ Goto(NextBlock("Upload"))
               /\ UNCHANGED << ran, log >>
          ELSE IF Produces
          THEN /\ pc' = "Upload"
               /\ idx' = 1
               /\ exit' = exit
               /\ ran' = Append(ran, "Upload")
               /\ log' = Append(log, Entry("row-action", "Upload"))
          ELSE /\ Fatal("upload_without_source")
               /\ UNCHANGED << ran, log >>
  /\ last' = NoCall
  /\ UNCHANGED << success, logfile, workdir, calls, anyError, dbs, files,
                  mail >>

\* lines 655-671
UploadBody ==
  /\ pc = "Upload"
  /\ idx = 1
  /\ \E dr \in {"absent", "set"}, rc \in ExeStates :
       /\ ReadRemote(dr, rc)
       /\ IF RemoteChecks(dr, rc) # "ok"
          THEN /\ Fatal(RemoteChecks(dr, rc))
               /\ UNCHANGED << success, log, calls, anyError, last >>
          ELSE \E copy_ok \in BOOLEAN :
                 LET r == upload_dir(copy_ok) IN
                 /\ Returned("Upload", r)
                 /\ calls' = calls \cup {"Upload"}
                 /\ last' = [stage |-> "Upload", content |-> files,
                             result |-> r]
  /\ UNCHANGED << logfile, workdir, ran, dbs, files, mail >>

\* The log file closed without its footer.
FinalizeLogNoFooter ==
  /\ pc = "FinalizeLog"
  /\ Goto(NextBlock("FinalizeLog"))
  /\ logfile' = "closed"
  /\ ran' = Append(ran, "FinalizeLog")
  /\ last' = NoCall
  /\ UNCHANGED << config, success, log, workdir, calls, anyError, dbs, files,
                  mail >>

\* lines 675-680
FinalizeLog ==
  /\ pc = "FinalizeLog"
  /\ Goto(NextBlock("FinalizeLog"))
  /\ log' = log \o << Entry("row-header", "FinalizeLog"),
                      Entry("table-close", "FinalizeLog"),
                      Entry("version", "FinalizeLog") >>
  /\ logfile' = "closed"
  /\ ran' = Append(ran, "FinalizeLog")
  /\ last' = NoCall
  /\ UNCHANGED << config, success, workdir, calls, anyError, dbs, files, mail >>

\* The log file copied whether or not there is a directory to copy it to.
CopyLogAlways ==
  /\ pc = "CopyLog"
  /\ Goto(NextBlock("CopyLog"))
  /\ files' = files \cup { << "log", 0 >> }
  /\ last' = NoCall
  /\ UNCHANGED << config, success, logfile, log, workdir, ran, calls,
                  anyError, dbs, mail >>

\* lines 682-684
CopyLog ==
  /\ pc = "CopyLog"
  /\ Goto(NextBlock("CopyLog"))
  /\ files' = IF Produces THEN files \cup { << "log", 0 >> } ELSE files
  /\ last' = NoCall
  /\ UNCHANGED << config, success, logfile, log, workdir, ran, calls,
                  anyError, dbs, mail >>

\* ---------------------------------------------------------- notification
\* send_email of [actions], line 687: absent reads as 'Never' (the
\* fallback); "Other" is any value that is none of the three.
Modes == { "Always", "OnlyError", "Never", "Other" }

\* "and not success" left out of line 688.
SendsIgnoringSuccess(s, mode) == mode \in { "Always", "OnlyError" }

\* A mail for every mode but 'Never'.
SendsUnlessNever(s, mode) == mode # "Never"

\* line 688: whether a mail is sent.
Sends(s, mode) == mode = "Always" \/ (mode = "OnlyError" /\ ~s)

\* lines 690-693: what the subject ends with.
Suffix(s) == IF s THEN "(OK)" ELSE "(ERROR)"

\* Running off the end of the script.
EndOfScript ==
  /\ pc' = "Done"
  /\ idx' = 0
  /\ exit' = [kind |-> "end", msg |-> "", at |-> pc]

\* lines 686-688
Notify ==
  /\ pc = "Notify"
  /\ idx = 0
  /\ \E mode \in Modes :
       /\ mail' = [mail EXCEPT !.mode = mode, !.send = Sends(success, mode)]
       /\ IF Sends(success, mode)
          THEN /\ pc' = "Notify"
               /\ idx' = 1
               /\ exit' = exit
          ELSE EndOfScript
  /\ ran' = Append(ran, "Notify")
  /\ last' = NoCall
  /\ UNCHANGED << config, success, logfile, log, workdir, calls, anyError,
                  dbs, files >>

\* The [email] section, as far as lines 689-736 read it: what the first
\* check that fails ends with, or the value of method.
EmailStates ==
  { "no_section", "sender", "receiver", "no_method", "smtp", "sendmail",
    "other_method" }

\* lines 711-726: the first smtp_* key that is missing ("" when none is).
SmtpKeys == { "", "smtp_server", "smtp_port", "smtp_user", "smtp_password" }

\* send_mail_smtp, lines 273-336, returns error_message: "" when nothing
\* failed, a text when the connection timed out, the login was refused or
\* the sender was refused; any other smtplib error leaves it as an
\* exception.  send_mail_sendmail, lines 350-365, returns what sendmail
\* wrote to stderr (its test process_output != 0 is always true).
TransportOutcomes == { "", "error_message", "exception" }

\* line 739: sys.exit(error_send_mail)
MailExit(error_send_mail) ==
  /\ pc' = "Done"
  /\ idx' = 0
  /\ exit' = [kind |-> "sysexit", msg |-> error_send_mail, at |-> pc]

\* The body cut down to the start header of the log.
ComposeSummary(m, s, l) ==
  [m EXCEPT !.suffix = Suffix(s), !.body = SubSeq(l, 1, 3)]

\* lines 689-699: the subject with its suffix, and the body: the log file
\* read as a whole.
Compose(m, s, l) == [m EXCEPT !.suffix = Suffix(s), !.body = l]

\* lines 689-739
NotifyBody ==
  /\ pc = "Notify"
  /\ idx = 1
  /\ \E email \in EmailStates, key \in SmtpKeys, exe \in ExeStates,
        out \in TransportOutcomes :
       LET composed == Compose(mail, success, log)
       IN
       CASE email = "no_section" ->
              /\ key = "" /\ exe = "absent" /\ out = ""
              /\ Uncaught("KeyError")
              /\ mail' = mail
         [] email \in { "sender", "receiver" } ->
              /\ key = "" /\ exe = "absent" /\ out = ""
              /\ Fatal(email)
              /\ mail' = composed
         [] email = "no_method" ->
              /\ key = "" /\ exe = "absent" /\ out = ""
              /\ Uncaught("KeyError")
              /\ mail' = composed
         [] email = "other_method" ->
              /\ key = "" /\ exe = "absent" /\ out = ""
              /\ Uncaught("NameError")
              /\ mail' = composed
         [] email = "smtp" ->
              /\ exe = "absent"
              /\ IF key # ""
                 THEN /\ out = ""
                      /\ Fatal(key)
                      /\ mail' = composed
                 ELSE /\ mail' = [composed EXCEPT !.transport = "smtp"]
                      /\ IF out = "exception"
                         THEN Uncaught("SMTPException")
                         ELSE MailExit(out)
         [] email = "sendmail" ->
              /\ key = ""
              /\ IF exe # "ok"
                 THEN /\ out = ""
                      /\ Fatal(ExeCheck("sendmail", exe))
                      /\ mail' = composed
                 ELSE /\ mail' = [composed EXCEPT !.transport = "sendmail"]
                      /\ IF out = "exception"
                         THEN Uncaught("OSError")
                         ELSE MailExit(out)
  /\ UNCHANGED << config, success, logfile, log, workdir, ran, calls,
                  anyError, last, dbs, files >>

Next ==
  \/ Start
  \/ PruneLocal \/ PruneLocalBody
  \/ PruneRemote \/ PruneRemoteBody
  \/ MakeWorkDir
  \/ Archive \/ ArchiveBody
  \/ Export \/ ExportItem \/ ExportEnd
  \/ SizeAudit \/ SizeAuditItem \/ SizeAuditEnd
  \/ Upload \/ UploadBody
  \/ FinalizeLog
  \/ CopyLog
  \/ Notify \/ NotifyBody

Spec == Init /\ [][Next]_vars

\* ------------------------------------------------------------ properties
Range(f) == { f[i] : i \in DOMAIN f }

\* The exceptions a configuration raises: a section that is missing
\* (KeyError), the mysql path that is missing (TypeError), a mail method that
\* is neither smtp nor sendmail (NameError).
ConfigFaults == { "KeyError", "TypeError", "NameError" }

\* The run ended in a stage block, before the log file was closed.
EndedInStage == pc = "Done" /\ logfile = "open"

\* C1: once past Init no failure of a stage (a listing row that does not
\* parse, a dump or an archive that fails without its file) ends the run: a
\* run that ends before FinalizeLog ends on a configuration value.
C1_NoStageFailureAborts ==
  EndedInStage =>
    \/ exit.kind = "sysexit"
    \/ exit.kind = "exception" /\ exit.msg \in ConfigFaults

\* Upload is enabled, Archive and Export are not.
UploadWithoutSource ==
  /\ config["upload_dir"] = "true"
  /\ config["compress_dir"] = "false"
  /\ config["export_db"] = "false"

StageFatal == exit.kind = "sysexit" /\ exit.at \notin { "Start", "Notify" }

LoopStages == { "Export", "SizeAudit" }

C4_SuccessFlag ==
  /\ success = TRUE
  /\ [][ /\ ~success => ~success'
         /\ anyError' => ~success' ]_vars

C4_Witness ==
  /\ pc = "FinalizeLog"
  /\ ~success /\ anyError
  /\ last.stage = "Upload" /\ last.result.error_code = 0

\* The items of a call that fail: a source that does not exist or an
\* archiver that raises.
FailedDirs(dirs) ==
  { i \in 1..Len(dirs) : ~dirs[i].exists \/ dirs[i].outcome # "ok" }

\* C5: a stage with N items of which k fail returns N rows, an (ERROR) row
\* for each failing item and an (OK) row for each other, and success is false
\* if k > 0 and, when no other stage has acted, only if k > 0.
C5_OneResultPerItem ==
  /\ last.stage = "Archive" =>
       LET rows == last.result.rows
           k == Cardinality(FailedDirs(last.items))
       IN /\ Len(rows) = Len(last.items)
          /\ \A i \in 1..Len(rows) :
               rows[i].sev = IF i \in FailedDirs(last.items) THEN "ERROR"
                                                             ELSE "OK"
          /\ k > 0 => ~success
          /\ (k = 0 /\ calls = {"Archive"}) => success
  /\ last.stage = "Export" =>
       /\ Len(last.result.rows) = 1
       /\ ~last.dump_ok => (last.result.rows[1].sev = "ERROR" /\ ~success)

\* C6: the truth table of the notification: Always sends, with "(OK)" when
\* success is true and "(ERROR)" when it is false; OnlyError sends when
\* success is false, with "(ERROR)", and not when it is true; Never does not
\* send.
C6_NotificationTruthTable ==
  /\ (mail.mode = "Always" /\ success) =>
       (mail.send /\ mail.suffix \in { "", "(OK)" })
  /\ (mail.mode = "Always" /\ ~success) =>
       (mail.send /\ mail.suffix \in { "", "(ERROR)" })
  /\ (mail.mode = "OnlyError" /\ success) =>
       (~mail.send /\ mail.suffix = "" /\ mail.transport = "none")
  /\ (mail.mode = "OnlyError" /\ ~success) =>
       (mail.send /\ mail.suffix \in { "", "(ERROR)" })
  /\ mail.mode = "Never" =>
       (~mail.send /\ mail.suffix = "" /\ mail.transport = "none")
  /\ mail.transport # "none" => (mail.send /\ mail.suffix # "")

C6_Witness ==
  /\ mail.mode = "OnlyError"
  /\ ~success
  /\ mail.send
  /\ mail.suffix = "(ERROR)"
  /\ mail.transport = "smtp"

\* C7: a run that went through every enabled stage and whose configuration
\* has every value ends with exit status 0, whether or not a mail was sent
\* and whatever the mail transport returned.
C7_CompletedRunExitsZero ==
  (pc = "Done" /\ exit.at = "Notify" /\ exit.kind # "exception"
     /\ (mail.send => mail.transport # "none"))
  => ExitCode(exit) = 0

\* The stages in the order of the claim.
C8_Order ==
  << "PruneLocal", "PruneRemote", "MakeWorkDir", "Archive", "Export",
     "SizeAudit", "Upload", "FinalizeLog", "Notify", "Done" >>

Rank(b) == CHOOSE i \in 1..Len(C8_Order) : C8_Order[i] = b

\* C8: the stages run in the order PruneLocal, PruneRemote, MakeWorkDir,
\* Archive, Export, SizeAudit, Upload, FinalizeLog, Notify, Done: each at
\* most once, none after a later one, and none before the one that runs has
\* finished.
C8_StagesInOrder ==
  /\ Range(ran) \subseteq Range(C8_Order)
  /\ \A i, j \in 1..Len(ran) : i < j => Rank(ran[i]) < Rank(ran[j])
  /\ pc \in Range(C8_Order) =>
       \A i \in 1..Len(ran) :
         /\ Rank(ran[i]) <= Rank(pc)
         /\ (Rank(ran[i]) = Rank(pc)) => (i = Len(ran) /\ idx >= 1)

C8_Witness ==
  /\ pc = "Done"
  /\ ran = SubSeq(C8_Order, 1, 9)

\* The rows of a listing, when each of its lines parses.
AllParse(lines) == \A i \in 1..Len(lines) : lines[i].kind = "row"

\* C9: in the local and in the remote retention stage a deletion that fails
\* does not keep the stage from the other entries: every expired entry of
\* the listing is attempted.
C9_EveryExpiredEntryAttempted ==
  /\ last.stage = "PruneLocal" =>
       \A i \in 1..Len(last.items) :
         (last.items[i].kind = "dir"
            /\ last.items[i].age > last.days * TicksPerDay)
         => i \in last.result.tried
  /\ (last.stage = "PruneRemote" /\ last.lsd_ok /\ AllParse(last.items)) =>
       \A i \in 1..Len(last.items) :
         last.items[i].age > last.days => i \in last.result.tried

\* The age of a local entry in whole days.
WholeDays(age) == age \div TicksPerDay

\* C10, as stated: an entry whose deletion does not fail is deleted if and
\* only if its age in whole days is greater than the threshold.
C10_DeletedIffWholeDaysOver ==
  /\ last.stage = "PruneLocal" =>
       \A i \in 1..Len(last.items) :
         (last.items[i].kind = "dir" /\ last.items[i].rm_ok) =>
           (i \in last.result.deleted
              <=> WholeDays(last.items[i].age) > last.days)
  /\ (last.stage = "PruneRemote" /\ last.lsd_ok) =>
       \A i \in 1..Len(last.items) :
         (last.items[i].kind = "row" /\ last.items[i].purge_ok) =>
           (i \in last.result.deleted <=> last.items[i].age > last.days)

\* The remote loop gets to line i: every line before it parses and no purge
\* before it failed.
Reached(lines, days, i) ==
  \A j \in 1..(i - 1) :
    /\ lines[j].kind = "row"
    /\ lines[j].age > days => lines[j].purge_ok

\* C10, amended: a local directory whose deletion does not fail is deleted
\* if and only if its exact age is greater than the threshold: more whole
\* days than the threshold, or as many and a fraction of a day.  A remote
\* row whose purge does not fail is purged if and only if its age in whole
\* days is greater than the threshold and the loop gets to it.
C10_DeletedIffOlder ==
  /\ last.stage = "PruneLocal" =>
       \A i \in 1..Len(last.items) :
         (last.items[i].kind = "dir" /\ last.items[i].rm_ok) =>
           (i \in last.result.deleted
              <=> \/ WholeDays(last.items[i].age) > last.days
                  \/ /\ WholeDays(last.items[i].age) = last.days
                     /\ last.items[i].age % TicksPerDay > 0)
  /\ last.stage = "PruneRemote" =>
       \A i \in 1..Len(last.items) :
         (last.items[i].kind = "row" /\ last.items[i].purge_ok) =>
           (i \in last.result.deleted
              <=> /\ last.lsd_ok
                  /\ last.items[i].age > last.days
                  /\ Reached(last.items, last.days, i))

C10_Witness ==
  /\ last.stage = "PruneLocal"
  /\ \E i \in 1..Len(last.items) :
       /\ last.items[i].kind = "dir"
       /\ WholeDays(last.items[i].age) = last.days
       /\ i \in last.result.deleted

\* C11: a second retention run on what the first run left, with the same
\* threshold, no time passed and every entry failing or succeeding as it did,
\* deletes nothing and leaves the entries as the first run left them; local
\* and remote.
C11_PruneTwiceIdempotent ==
  /\ last.stage = "PruneLocal" =>
       LET left == Remaining(last.items, last.result.deleted, 1)
           second == delete_dirs_local(left, last.days)
       IN /\ second.deleted = {}
          /\ Remaining(left, second.deleted, 1) = left
  /\ last.stage = "PruneRemote" =>
       \A first \in RemoteLines :
         LET left == Remaining(last.items, last.result.deleted, 1)
             second == delete_dirs_remote(last.lsd_ok, << first >> \o left,
                                          last.days)
         IN /\ second.deleted = {}
            /\ Remaining(left, second.deleted, 1) = left

C11_Witness ==
  /\ last.stage = "PruneLocal"
  /\ last.result.deleted # {}
  /\ Len(Remaining(last.items, last.result.deleted, 1)) > 0
  /\ \E i \in last.result.tried : i \notin last.result.deleted

\* The last call is check_size_db and it returned a row of severity sev.
Audited(l, sev) == l.stage = "SizeAudit" /\ l.result.rows[1].sev = sev

\* C12, as stated: a (WARNING) does not degrade success: when the only rows
\* that are not (OK) are (WARNING) rows, success is true.
C12_WarningKeepsSuccess == (Audited(last, "WARNING") /\ ~anyError) => success

\* C12, amended: a database over its limit gets a (WARNING) row in the log,
\* the loop goes on with the next section, and success is false from then on,
\* as after an (ERROR).
C12_WarningDegrades ==
  [][ /\ Audited(last', "WARNING") =>
           /\ ~success'
           /\ log' = Append(log, Entry("row", "SizeAudit"))
           /\ pc' = "SizeAudit" /\ idx' = idx + 1
           /\ exit' = Running
      /\ ~success => ~success' ]_vars

C12_Witness ==
  /\ Audited(last, "WARNING")
  /\ ~anyError
  /\ calls = { "SizeAudit" }
  /\ ~success

\* The query of the last call succeeded and its output has the row of the
\* database.
Measured(l) == l.stage = "SizeAudit" /\ l.query_ok /\ l.found

\* C13: a database whose size query succeeds is over its limit if and only
\* if its size is strictly greater than the limit, and (OK) otherwise, a
\* size equal to the limit included; of two databases audited one after the
\* other, one over and one within its limit, one gets the over-limit row and
\* the other the (OK) row, one row each.
C13_OverLimitIffGreater ==
  [][ /\ Measured(last') =>
           /\ Len(last'.result.rows) = 1
           /\ Audited(last', "WARNING")
                <=> last'.size > last'.max_size * TicksPerMB
           /\ Audited(last', "OK")
                <=> last'.size <= last'.max_size * TicksPerMB
           /\ last'.result.db_size = last'.size
           /\ log' = Append(log, Entry("row", "SizeAudit"))
      /\ (Measured(last) /\ Measured(last')
            /\ last.size > last.max_size * TicksPerMB
            /\ last'.size <= last'.max_size * TicksPerMB) =>
           /\ last'.item > last.item
           /\ Audited(last, "WARNING") /\ Audited(last', "OK") ]_vars

C13_Witness ==
  /\ Measured(last)
  /\ last.item = 2
  /\ last.size = last.max_size * TicksPerMB
  /\ last.max_size > 0
  /\ Audited(last, "OK")
  /\ ~success

\* C14: a query that exits with a status other than 0, and a query whose
\* output has no row of the database, both get an (ERROR) row with no size,
\* never an (OK) row.
C14_FailureYieldsError ==
  (last.stage = "SizeAudit" /\ (~last.query_ok \/ ~last.found)) =>
    /\ Audited(last, "ERROR")
    /\ last.result.db_size = NoValue

\* The sources of the call that do not exist.
MissingDirs(dirs) == { i \in 1..Len(dirs) : ~dirs[i].exists }

\* The archiver succeeds on every source of the call that exists.
ArchiverSucceeds(dirs) ==
  \A i \in 1..Len(dirs) : dirs[i].exists => dirs[i].outcome = "ok"

\* C15: with Archive the only stage enabled so far and an archiver that
\* succeeds on the sources that exist, each source that does not exist gets
\* an (ERROR) row and the loop goes on, each source that exists gets an (OK)
\* row with its size, success is false if and only if some source is missing,
\* and the working directory holds one archive for each source that exists
\* and none for the others.
C15_MissingSourcesIsolated ==
  ( /\ last.stage = "Archive"
    /\ config["delete_local"] = "false"
    /\ config["delete_remote"] = "false"
    /\ ArchiverSucceeds(last.items) )
  => LET rows == last.result.rows
         missing == MissingDirs(last.items)
     IN /\ last.result.raised = "none"
        /\ Len(rows) = Len(last.items)
        /\ \A i \in 1..Len(rows) :
             /\ rows[i].item = i
             /\ rows[i].sev = IF i \in missing THEN "ERROR" ELSE "OK"
        /\ success <=> missing = {}
        /\ workdir = "created"
        /\ files = { << "tar", i >> : i \in (1..Len(last.items)) \ missing }
        /\ pc = NextBlock("Archive")
        /\ exit = Running

C15_Witness ==
  /\ last.stage = "Archive"
  /\ calls = { "Archive" }
  /\ Len(last.items) = 2
  /\ MissingDirs(last.items) = {1}
  /\ last.items[2].outcome = "ok"
  /\ ~success
  /\ files = { << "tar", 2 >> }

\* C16: a dump that exits with a status other than 0 gets an (ERROR) row for
\* its database, whether or not the dump file was created, and the loop goes
\* on with the next section.
C16_DumpFailureIsolated ==
  (last.stage = "Export" /\ ~last.dump_ok) =>
    /\ last.result.raised = "none"
    /\ last.result.rows = << [sev |-> "ERROR", item |-> 0] >>
    /\ ~success
    /\ pc = "Export" /\ idx = last.item + 1
    /\ exit = Running

\* Nothing read so far says that Archive or Export is enabled or that
\* Upload is disabled.
NoSource ==
  /\ config["compress_dir"] # "true"
  /\ config["export_db"] # "true"
  /\ config["upload_dir"] # "false"

\* C17: in a run with Upload enabled and Archive and Export disabled the
\* working directory is never created, the run does not get past the Upload
\* block, and when it has ended its exit status is not 0.
C17_NoWorkDirNonzeroExit ==
  NoSource =>
    /\ workdir = "none"
    /\ files = {}
    /\ "MakeWorkDir" \notin Range(ran)
    /\ BlockIndex(pc) <= BlockIndex("Upload") \/ pc = "Done"
    /\ pc = "Done" => ExitCode(exit) # 0

C17_Witness ==
  /\ UploadWithoutSource
  /\ pc = "Done"
  /\ exit.at = "Upload"
  /\ ExitCode(exit) = 1
  /\ calls = {}
  /\ workdir = "none"

\* C18: a key or a section that an enabled stage or a decided notification
\* needs and that is missing ends the run with a message written for the
\* operator (a sys.exit message), never with an exception of the
\* configuration lookup.
C18_MissingKeyIsDescriptive ==
  exit.kind = "exception" => exit.msg \notin { "KeyError", "TypeError" }

\* The run ended on a value of the configuration: a sys.exit with a message,
\* other than the one of line 739 that follows the mail transport.
FatalConfig ==
  /\ exit.kind = "sysexit"
  /\ ~(exit.at = "Notify" /\ mail.transport # "none")

\* The completion footer: the closing of the table, lines 677-678.
HasFooter == \E i \in 1..Len(log) : log[i].element = "table-close"

MailFatals ==
  { "sender", "receiver", "smtp_server", "smtp_port", "smtp_user",
    "smtp_password", "sendmail", "sendmail_nofile" }

StageFlags ==
  { << "PruneLocal", "delete_local" >>, << "PruneRemote", "delete_remote" >>,
    << "Archive", "compress_dir" >>, << "Export", "export_db" >>,
    << "SizeAudit", "check_db_size" >>, << "Upload", "upload_dir" >> }

\* What stage b leaves in the working directory.
FilesOf(b) ==
  CASE b = "Archive" -> { f \in files : f[1] = "tar" }
    [] b = "Export" -> { f \in files : f[1] = "sql" }
    [] OTHER -> {}

\* C20: a stage whose flag is false writes no header and no row to the log,
\* calls no collaborator, creates and deletes nothing, and the step that
\* skips it leaves success, the log, the files and the working directory as
\* they were and goes on with the next block.
C20_DisabledStageSkipped ==
  /\ [](\A p \in StageFlags :
         config[p[2]] = "false" =>
           /\ p[1] \notin Range(ran)
           /\ p[1] \notin calls
           /\ \A i \in 1..Len(log) : log[i].stage # p[1]
           /\ FilesOf(p[1]) = {}
           /\ last.stage # p[1])
  /\ [][ \A p \in StageFlags :
           (pc = p[1] /\ idx = 0 /\ config'[p[2]] = "false") =>
             /\ pc' = NextBlock(p[1])
             /\ UNCHANGED << success, logfile, log, workdir, exit, ran, calls,
                             anyError, files, mail >> ]_vars

C20_Witness ==
  /\ \A p \in StageFlags : config[p[2]] = "false"
  /\ pc = "FinalizeLog"
  /\ Len(log) = 3
  /\ success
  /\ calls = {}

\* The script is past the block of lines 525-532, or ended past it.
PastMakeWorkDir ==
  LET at == IF pc = "Done" THEN exit.at ELSE pc
  IN BlockIndex(at) > BlockIndex("MakeWorkDir")

\* C21: once the script is past MakeWorkDir the working directory exists if
\* and only if Archive or Export is enabled; it is created by MakeWorkDir
\* alone, once, and is never removed; Archive and Export run and write only
\* when it exists; Upload runs only when it exists and uploads what it
\* holds.
C21_WorkDirLifecycle ==
  /\ [](/\ PastMakeWorkDir => (workdir = "created" <=> Produces)
        /\ workdir = "created" <=> "MakeWorkDir" \in Range(ran)
        /\ \A b \in { "Archive", "Export", "Upload" } :
             b \in Range(ran) => workdir = "created"
        /\ files # {} => workdir = "created"
        /\ last.stage = "Upload" =>
             (workdir = "created" /\ last.content = files))
  /\ [][ /\ workdir = "created" => workdir' = "created"
         /\ workdir' # workdir => (pc = "MakeWorkDir" /\ files = {}) ]_vars

C21_Witness ==
  /\ last.stage = "Upload"
  /\ workdir = "created"
  /\ config["compress_dir"] = "false"
  /\ config["export_db"] = "true"
  /\ last.content = { << "sql", 1 >> }

\* The stages that write a header when they are entered.
HeaderStages == { p[1] : p \in StageFlags }

\* C22: a notification that is sent has the whole log as its body: the log
\* file was closed with its footer before it was read, and the body starts
\* with the start header, has the header of every stage that was entered and
\* the row of every stage that called its function, and ends with the
\* footer.
C22_BodyIsFullLog ==
  mail.transport # "none" =>
    /\ logfile = "closed"
    /\ HasFooter
    /\ mail.body = log
    /\ mail.body[1] = Entry("table-open", "Start")
    /\ mail.body[Len(mail.body)] = Entry("version", "FinalizeLog")
    /\ \A b \in Range(ran) \cap HeaderStages :
         \E i \in 1..Len(mail.body) : mail.body[i] = Entry("row-action", b)
    /\ \A b \in calls :
         \E i \in 1..Len(mail.body) : mail.body[i] = Entry("row", b)

C22_Witness ==
  /\ mail.transport = "smtp"
  /\ { "PruneLocal", "Archive", "Upload" } \subseteq calls
  /\ mail.body = log
  /\ Len(mail.body) >= 12

\* The copy of the log file in the working directory.
LogCopy == << "log", 0 >>

\* The script is past the block of lines 682-684, or ended past it.
PastCopyLog ==
  LET at == IF pc = "Done" THEN exit.at ELSE pc
  IN BlockIndex(at) > BlockIndex("CopyLog")

\* C23: a run that is past Init has one log file, the new one, in the place
\* of the one of an earlier run; once the log is finalized and the script is
\* past the copy, the working directory holds a copy of the log if and only
\* if the working directory exists, and before that it holds none.
C23_OneLogAndItsCopy ==
  /\ pc \notin { "Start", "Done" } => logfile \in { "open", "closed" }
  /\ (pc = "Done" /\ exit.at # "Start") => logfile \in { "open", "closed" }
  /\ logfile = "closed" <=> "FinalizeLog" \in Range(ran)
  /\ PastCopyLog =>
       /\ logfile = "closed"
       /\ LogCopy \in files <=> workdir = "created"
       /\ workdir = "created" <=> Produces
  /\ ~PastCopyLog => LogCopy \notin files

C23_Witness ==
  /\ pc = "Notify"
  /\ logfile = "closed"
  /\ workdir = "created"
  /\ files = { << "tar", 1 >>, LogCopy }

\* The three entries of lines 484-487 and the three of lines 676-679.
StartHeader ==
  << Entry("table-open", "Start"), Entry("caption", "Start"),
     Entry("row-header", "Start") >>

Footer ==
  << Entry("row-header", "FinalizeLog"), Entry("table-close", "FinalizeLog"),
     Entry("version", "FinalizeLog") >>

\* C24: the log only grows at its end; it starts with the start header;
\* the header of a stage comes before the rows of the stage; the entries of
\* the stages are in the order of the pipeline; and the footer is written
\* once, as the last entries, after which nothing is written.
C24_LogOrderedAppendOnly ==
  /\ [](/\ log # << >> => SubSeq(log, 1, 3) = StartHeader
        /\ \A i \in 1..(Len(log) - 1) :
             BlockIndex(log[i].stage) <= BlockIndex(log[i + 1].stage)
        /\ \A j \in 1..Len(log) :
             log[j].element = "row" =>
               \E i \in 1..(j - 1) :
                 log[i] = Entry("row-action", log[j].stage)
        /\ \A b \in HeaderStages :
             Cardinality({ i \in 1..Len(log) :
                            log[i] = Entry("row-action", b) }) <= 1
        /\ HasFooter =>
             /\ SubSeq(log, Len(log) - 2, Len(log)) = Footer
             /\ Cardinality({ i \in 1..Len(log) :
                              log[i].stage = "FinalizeLog" }) = 3
             /\ logfile = "closed")
  /\ [][ /\ Len(log') >= Len(log)
         /\ SubSeq(log', 1, Len(log)) = log
         /\ HasFooter => log' = log ]_vars

C24_Witness ==
  /\ HasFooter
  /\ \E i, j \in 1..Len(log) :
       /\ i < j
       /\ log[i] = Entry("row", "Export")
       /\ log[j] = Entry("row", "Export")
  /\ \E i \in 1..Len(log) : log[i] = Entry("row", "Upload")

\* The tables a value of exclude names: its pieces between commas, spaces
\* taken off, that are not empty.
Tables(exclude) ==
  SelectSeq(split(exclude, 1, << >>),
            LAMBDA t : RemoveSpaces(t) # << >>)

\* C25: the dump gets one --ignore-table flag for each table named in
\* exclude, and no flag when exclude is absent or empty.
C25_OneFlagPerExcludedTable ==
  last.stage = "Export" =>
    /\ Len(last.flags) = Len(Tables(last.exclude))
    /\ \A i \in 1..Len(last.flags) : last.flags[i] # << >>
    /\ last.exclude = << >> => last.flags = << >>

\* The position of block b in ran, 0 when the block was not entered.
Entered(b) ==
  IF b \in Range(ran) THEN CHOOSE i \in 1..Len(ran) : ran[i] = b ELSE 0

\* C26: when Upload hands the working directory to the copy program the log
\* is not finalized and was not copied: the directory holds no copy of the
\* log; and in a run with both, Upload is entered before FinalizeLog.
C26_UploadBeforeLogCopy ==
  /\ last.stage = "Upload" =>
       /\ LogCopy \notin last.content
       /\ last.content = files
       /\ logfile = "open"
       /\ ~HasFooter
       /\ "FinalizeLog" \notin Range(ran)
  /\ ("Upload" \in Range(ran) /\ "FinalizeLog" \in Range(ran)) =>
       Entered("Upload") < Entered("FinalizeLog")
  /\ LogCopy \in files => pc \in { "Notify", "Done" }

C26_Witness ==
  /\ last.stage = "Upload"
  /\ last.result.error_code = 0
  /\ last.content = { << "tar", 1 >>, << "sql", 1 >> }

\* No mail is decided: the mode and success of line 688.
NoSend ==
  \/ mail.mode \in { "Never", "Other" }
  \/ mail.mode = "OnlyError" /\ success

\* C27: with mode Never, with OnlyError and success true, and with a mode
\* that is none of the three, the script ends at line 688: nothing of
\* [email] is read, no transport is called, and the run ends with status 0
\* whatever [email] holds.
C27_NoEmailReadWithoutSend ==
  NoSend =>
    /\ ~mail.send
    /\ mail.suffix = "" /\ mail.body = << >>
    /\ mail.transport = "none"
    /\ pc = "Done"
    /\ exit = [kind |-> "end", msg |-> "", at |-> "Notify"]
    /\ ExitCode(exit) = 0

C27_Witness ==
  /\ mail.mode = "Other"
  /\ ~success
  /\ pc = "Done"
  /\ exit.kind = "end"

====
